---- MODULE Spec2Model ----
(***************************************************************************)
(* Model of SimpleLOBStream: streamer.OrderBookStream (order book replica  *)
(* kept from a REST snapshot plus websocket depth updates) and the         *)
(* dispatcher / consumer callback of main.py.                              *)
(*                                                                         *)
(* One action is one uninterrupted stretch of code between two suspension  *)
(* points of the asyncio event loop (task start, connect, await recv,      *)
(* await sleep); the loop interleaves these stretches arbitrarily.         *)
(***************************************************************************)
EXTENDS Integers, Sequences, FiniteSets, TLC

\* ---------------------------------------------------------------- bounds
\* number of run() tasks ever created (calls of open_stream_order_book*)
MaxRuns == 2
\* number of events on the network in all: a frame delivered, a connection
\* refused, a connection dropped
MaxEvents == 2

\* ------------------------------------------------------------ dictionaries
\* a Python dict is a function whose domain is its key set
EmptyDict == [k \in {} |-> 0]

\* d[k] = v
DictPut(d, k, v) == [x \in (DOMAIN d) \cup {k} |-> IF x = k THEN v ELSE d[x]]

\* del d[k] (callers guard k in d where the code does)
DictDel(d, k) == [x \in (DOMAIN d) \ {k} |-> d[x]]

\* {'bids': {}, 'asks': {}}
EmptyBook == [bids |-> EmptyDict, asks |-> EmptyDict]

\* ------------------------------------------------------------- the inputs
\* config.pairs: one spot pair and one perpetual pair
Pairs == {"AB", "A_B"}

\* '_' in symbol
HasUnderscore(symbol) == symbol = "A_B"

\* symbol.lower()
Lower(symbol) == CASE symbol = "AB" -> "ab" [] symbol = "A_B" -> "a_b"

\* f'depth_{symbol.lower()}'
SpotId(symbol) ==
  CASE Lower(symbol) = "ab" -> "depth_ab" [] Lower(symbol) = "a_b" -> "depth_a_b"

\* f'depth_perp_{symbol.lower()}'
PerpId(symbol) ==
  CASE Lower(symbol) = "ab" -> "depth_perp_ab"
    [] Lower(symbol) = "a_b" -> "depth_perp_a_b"

\* id.find('depth_perp') == 0
IsPerpId(id) == id \in {"depth_perp_ab", "depth_perp_a_b"}

\* Decimal(s) succeeds, for the strings that occur on the wire ("x" is not a
\* number)
DecimalOk(s) == s \in {"0", "1", "1.0", "2"}

\* Decimal(s): the numeric value; "1" and "1.0" are equal Decimals with equal
\* hashes, hence the same dict key
Decimal(s) == CASE s = "0" -> 0 [] s = "1" -> 1 [] s = "1.0" -> 1 [] s = "2" -> 2

\* the depth payloads a feed sends: 'a' and 'b' lists of [price, quantity]
Updates == {
  [a |-> << <<"1", "0">>, <<"2", "0">> >>, b |-> << <<"1.0", "0">> >>],
  [a |-> << <<"2", "2">> >>, b |-> << >>],
  [a |-> << <<"2", "1">>, <<"2", "2">> >>, b |-> << <<"x", "1">> >>]
}

\* the text frames of a connection.  A spot stream sends the payload itself,
\* a perpetual stream wraps it under 'data'; "garbage" is not JSON.
WireFrames(symbol, perp) ==
  {[env |-> IF perp THEN "data" ELSE "none", s |-> symbol, a |-> u.a, b |-> u.b]
      : u \in Updates}
  \cup {[env |-> "garbage", s |-> symbol, a |-> << >>, b |-> << >>]}

\* no frame
NoFrame == [env |-> "nil", s |-> "", a |-> << >>, b |-> << >>]

\* bodies of the REST depth endpoint: 'bids' and 'asks' lists of
\* [price, quantity]; "HTTPError" is a non-2xx answer
Responses == {
  [status |-> "ok", bids |-> << <<"1", "1">> >>, asks |-> << <<"2", "1">> >>],
  [status |-> "HTTPError", bids |-> << >>, asks |-> << >>]
}

\* the consumers handed to open_stream_order_book*: main.py's
\* call_order_book, and a consumer that only reads the frame
Callbacks == {"call_order_book", "consumer"}

\* ------------------------------------------------------- snapshot fetcher
\* the (Decimal, Decimal) pairs built from a list of [price, quantity]
DecimalPairs(entries) ==
  [i \in 1..Len(entries) |-> <<Decimal(entries[i][1]), Decimal(entries[i][2])>>]

\* on_order_book(symbol): err is the exception raised for an HTTPError,
\* otherwise the OrderBook(bids, asks) namedtuple of the response
on_order_book(resp) ==
  IF resp.status = "HTTPError"
  THEN [err |-> TRUE, bids |-> << >>, asks |-> << >>]
  ELSE [err |-> FALSE, bids |-> DecimalPairs(resp.bids),
        asks |-> DecimalPairs(resp.asks)]

\* ------------------------------------------------------------ the merge
\* for (p, q) in levels: d[p] = q
RECURSIVE InsertLevels(_, _)
InsertLevels(d, levels) ==
  IF levels = << >> THEN d
  ELSE InsertLevels(DictPut(d, Head(levels)[1], Head(levels)[2]), Tail(levels))

\* MergeLevel with `del d[p]` not guarded by `p in d`: KeyError on an absent
\* price
MergeLevelUnguarded(d, entry) ==
  IF ~(DecimalOk(entry[1]) /\ DecimalOk(entry[2]))
  THEN [dict |-> d, err |-> TRUE]
  ELSE LET p == Decimal(entry[1])
           q == Decimal(entry[2])
       IN  IF q > 0 THEN [dict |-> DictPut(d, p, q), err |-> FALSE]
           ELSE [dict |-> DictDel(d, p), err |-> p \notin DOMAIN d]

\* MergeLevel with `d[p] += q` in place of `d[p] = q`
MergeLevelAdds(d, entry) ==
  IF ~(DecimalOk(entry[1]) /\ DecimalOk(entry[2]))
  THEN [dict |-> d, err |-> TRUE]
  ELSE LET p == Decimal(entry[1])
           q == Decimal(entry[2])
       IN  IF q > 0
           THEN [dict |-> DictPut(d, p, q + (IF p \in DOMAIN d THEN d[p] ELSE 0)),
                 err |-> FALSE]
           ELSE IF p \in DOMAIN d THEN [dict |-> DictDel(d, p), err |-> FALSE]
           ELSE [dict |-> d, err |-> FALSE]

\* MergeLevel without the test `q > 0`: every level is written as it comes
MergeLevelKeepsZero(d, entry) ==
  IF ~(DecimalOk(entry[1]) /\ DecimalOk(entry[2]))
  THEN [dict |-> d, err |-> TRUE]
  ELSE [dict |-> DictPut(d, Decimal(entry[1]), Decimal(entry[2])), err |-> FALSE]

\* one pass of the body of `for ask in asks` / `for bid in bids`:
\* the dict afterwards, and whether Decimal() raised
MergeLevel(d, entry) ==
  IF ~(DecimalOk(entry[1]) /\ DecimalOk(entry[2]))
  THEN [dict |-> d, err |-> TRUE]
  ELSE LET p == Decimal(entry[1])
           q == Decimal(entry[2])
       IN  IF q > 0 THEN [dict |-> DictPut(d, p, q), err |-> FALSE]
           ELSE IF p \in DOMAIN d THEN [dict |-> DictDel(d, p), err |-> FALSE]
           ELSE [dict |-> d, err |-> FALSE]

\* the whole loop over one side; an exception leaves the levels merged so far
RECURSIVE MergeSide(_, _)
MergeSide(d, entries) ==
  IF entries = << >> THEN [dict |-> d, err |-> FALSE]
  ELSE LET r == MergeLevel(d, Head(entries))
       IN  IF r.err THEN r ELSE MergeSide(r.dict, Tail(entries))

\* the book is still empty on both sides
BookEmpty(book) == DOMAIN book.asks = {} /\ DOMAIN book.bids = {}

\* update_order_book with the exception of on_order_book caught and dropped:
\* the frame is merged into the empty book
update_order_book_goes_on(book, updates, resp) ==
  LET boot  == BookEmpty(book)
      ob    == on_order_book(resp)
      book1 == IF boot /\ ~ob.err
               THEN [asks |-> InsertLevels(book.asks, ob.asks),
                     bids |-> InsertLevels(book.bids, ob.bids)]
               ELSE book
      ra    == MergeSide(book1.asks, updates.a)
      book2 == [book1 EXCEPT !.asks = ra.dict]
      rb    == MergeSide(book2.bids, updates.b)
      book3 == [book2 EXCEPT !.bids = rb.dict]
  IN  IF ra.err
      THEN [book |-> book2, err |-> TRUE, fetched |-> boot,
            fetchErr |-> boot /\ ob.err]
      ELSE [book |-> book3, err |-> rb.err, fetched |-> boot,
            fetchErr |-> boot /\ ob.err]

\* update_order_book on the book of the symbol; resp is what the depth
\* endpoint answers if it is asked.  Result: the book afterwards (it is
\* mutated in place, so an exception keeps what was written before it),
\* whether an exception left the method, whether the snapshot was requested,
\* whether the request raised.
update_order_book(book, updates, resp) ==
  LET boot  == BookEmpty(book)
      ob    == on_order_book(resp)
      book1 == IF boot /\ ~ob.err
               THEN [asks |-> InsertLevels(book.asks, ob.asks),
                     bids |-> InsertLevels(book.bids, ob.bids)]
               ELSE book
      ra    == MergeSide(book1.asks, updates.a)
      book2 == [book1 EXCEPT !.asks = ra.dict]
      rb    == MergeSide(book2.bids, updates.b)
      book3 == [book2 EXCEPT !.bids = rb.dict]
  IN  IF boot /\ ob.err
      THEN [book |-> book, err |-> TRUE, fetched |-> TRUE, fetchErr |-> TRUE]
      ELSE IF ra.err
      THEN [book |-> book2, err |-> TRUE, fetched |-> boot, fetchErr |-> FALSE]
      ELSE [book |-> book3, err |-> rb.err, fetched |-> boot, fetchErr |-> FALSE]

\* --------------------------------------------------------- the consumers
\* main.py call_order_book raises IndexError on [0] of an empty key list
call_order_book_raises(lob) == DOMAIN lob.asks = {} \/ DOMAIN lob.bids = {}

\* whether callback(data) raises
CallbackRaises(callback, lob) ==
  IF callback = "call_order_book" THEN call_order_book_raises(lob) ELSE FALSE

\* ---------------------------------------------------------------- state
VARIABLES
  order_books,       \* self._order_books: symbol -> {'bids': .., 'asks': ..}
  order_books_perp,  \* self._order_books_perp
  sockets,           \* self._sockets: the ids of the open streams
  tasks,             \* self._tasks: id -> the run whose recv task is stored
  runs,              \* the asyncio tasks running run(), in creation order
  closed,            \* close() has been called
  events,            \* number of network events so far
  stats,             \* per run: what it fetched, merged and called back,
                     \* and whether a snapshot request of its own raised
  ref,               \* per symbol: the reference book of sequential merging
  closing,           \* close() was the last step, and the runs whose receive
                     \* was pending in self._tasks when it was called
  mbook,             \* SpecMerge, SpecBook: the book under test
  mlog               \* SpecMerge: the last two merged levels;
                     \* SpecBook: the last call of update_order_book

progVars == <<order_books, order_books_perp, sockets, tasks, runs, closed,
              events>>
histVars == <<stats, ref, closing>>
mergeVars == <<mbook, mlog>>
vars == <<order_books, order_books_perp, sockets, tasks, runs, closed, events,
          stats, ref, closing, mbook, mlog>>

\* close() is not the last step any more
NotClosing == [last |-> FALSE, pending |-> {}]

\* a run() task just created by asyncio.Task(self.run(...))
NewRun(id, symbol, callback) ==
  [id |-> id, symbol |-> symbol, callback |-> callback,
   pc |-> "created", recv |-> "none", data |-> NoFrame]

NewStats ==
  [nFetch |-> 0, nMerged |-> 0, nCalled |-> 0,
   lastMerged |-> NoFrame, lastCalled |-> NoFrame, fetchFailed |-> FALSE]

NewRef == [init |-> FALSE, book |-> EmptyBook]

InitStream ==
  /\ order_books = EmptyDict
  /\ order_books_perp = EmptyDict
  /\ sockets = {}
  /\ tasks = EmptyDict
  /\ runs = << >>
  /\ closed = FALSE
  /\ events = 0
  /\ stats = << >>
  /\ ref = [p \in Pairs |-> NewRef]
  /\ closing = NotClosing

Init == InitStream /\ mbook = EmptyBook /\ mlog = << >>

\* ------------------------------------------------------------ dispatcher
\* open_stream_order_book(symbol, callback): a fresh book for the symbol and
\* a new task running run()
open_stream_order_book(symbol, callback) ==
  /\ order_books' = DictPut(order_books, symbol, EmptyBook)
  /\ runs' = Append(runs, NewRun(SpotId(symbol), symbol, callback))
  /\ stats' = Append(stats, NewStats)
  /\ closing' = NotClosing
  /\ UNCHANGED <<order_books_perp, sockets, tasks, closed, events,
                 ref, mergeVars>>

\* open_stream_order_book_perp(symbol, callback)
open_stream_order_book_perp(symbol, callback) ==
  /\ order_books_perp' = DictPut(order_books_perp, symbol, EmptyBook)
  /\ runs' = Append(runs, NewRun(PerpId(symbol), symbol, callback))
  /\ stats' = Append(stats, NewStats)
  /\ closing' = NotClosing
  /\ UNCHANGED <<order_books, sockets, tasks, closed, events, ref,
                 mergeVars>>

\* main.py run(): streams are opened before close(), all with the same
\* callback; at most MaxRuns of them
CanStart(callback) ==
  /\ ~closed
  /\ Len(runs) < MaxRuns
  /\ \A r \in DOMAIN runs : runs[r].callback = callback

\* main.py: for pair in pairs, a pair without '_' is a spot pair
start_spot(pair, callback) ==
  /\ ~HasUnderscore(pair)
  /\ CanStart(callback)
  /\ open_stream_order_book(pair, callback)

\* main.py: for pair in pairs, a pair with '_' is a perpetual
start_perp(pair, callback) ==
  /\ HasUnderscore(pair)
  /\ CanStart(callback)
  /\ open_stream_order_book_perp(pair, callback)

\* ------------------------------------------------------------- run()
\* Ends where the exception of one run ends every run
EndsEveryRun(r, how) ==
  [o \in DOMAIN runs |->
     IF o = r \/ how = "error"
     THEN [runs[o] EXCEPT !.pc = how, !.data = NoFrame] ELSE runs[o]]

\* the run ends here: an exception, a return, or the end of the loop; its
\* local `data` is gone with it
Ends(r, how) == [runs EXCEPT ![r].pc = how, ![r].data = NoFrame]

\* first step of the task: the duplicate check, then await connect()
run_start(r) ==
  /\ runs[r].pc = "created"
  /\ runs' = IF runs[r].id \in sockets THEN Ends(r, "duplicate")
             ELSE [runs EXCEPT ![r].pc = "connecting"]
  /\ closing' = NotClosing
  /\ UNCHANGED <<order_books, order_books_perp, sockets, tasks,
                 closed, events, stats, ref, mergeVars>>

\* the loop head: while id in self._sockets: create the recv task, store it
\* in self._tasks, await it; otherwise leave the loop and the connection
LoopHead(r, socks, rs) ==
  IF rs[r].id \in socks
  THEN /\ runs' = [rs EXCEPT ![r].pc = "recv", ![r].recv = "pending"]
       /\ tasks' = DictPut(tasks, rs[r].id, r)
  ELSE /\ runs' = [rs EXCEPT ![r].pc = "exited", ![r].data = NoFrame]
       /\ tasks' = tasks

\* websockets.connect(url) succeeded: register the id and enter the loop
connect_ok(r) ==
  /\ runs[r].pc = "connecting"
  /\ sockets' = sockets \cup {runs[r].id}
  /\ LoopHead(r, sockets', runs)
  /\ closing' = NotClosing
  /\ UNCHANGED <<order_books, order_books_perp, closed, events,
                 stats, ref, mergeVars>>

\* websockets.connect(url) raised
connect_fail(r) ==
  /\ runs[r].pc = "connecting"
  /\ events < MaxEvents
  /\ events' = events + 1
  /\ runs' = Ends(r, "error")
  /\ closing' = NotClosing
  /\ UNCHANGED <<order_books, order_books_perp, sockets, tasks,
                 closed, stats, ref, mergeVars>>

\* socket.recv() completes with a text frame
recv_frame(r, frame) ==
  /\ runs[r].pc = "recv" /\ runs[r].recv = "pending"
  /\ events < MaxEvents
  /\ events' = events + 1
  /\ runs' = [runs EXCEPT ![r].recv = "done", ![r].data = frame]
  /\ closing' = NotClosing
  /\ UNCHANGED <<order_books, order_books_perp, sockets, tasks,
                 closed, stats, ref, mergeVars>>

\* socket.recv() fails: the connection was dropped
recv_closed(r) ==
  /\ runs[r].pc = "recv" /\ runs[r].recv = "pending"
  /\ events < MaxEvents
  /\ events' = events + 1
  /\ runs' = [runs EXCEPT ![r].recv = "failed"]
  /\ closing' = NotClosing
  /\ UNCHANGED <<order_books, order_books_perp, sockets, tasks,
                 closed, stats, ref, mergeVars>>

\* the frame as run() hands it on: json.loads, then data['data'] for a
\* perpetual stream
Unwrap(raw) == [raw EXCEPT !.env = "none"]

\* the reference: the snapshot once, then every frame merged in turn, the
\* asks in list order and then the bids in list order
RefStep(rf, updates, resp) ==
  LET ob   == on_order_book(resp)
      base == IF rf.init THEN rf.book
              ELSE [asks |-> InsertLevels(EmptyDict, ob.asks),
                    bids |-> InsertLevels(EmptyDict, ob.bids)]
      ra   == MergeSide(base.asks, updates.a)
      rb   == MergeSide(base.bids, updates.b)
  IN  IF ~rf.init /\ ob.err THEN rf
      ELSE [init |-> TRUE,
            book |-> [asks |-> ra.dict,
                      bids |-> IF ra.err THEN base.bids ELSE rb.dict]]

\* Account with callback(data) placed before update_order_book: the consumer
\* is called for a frame whose merge then raises
AccountCallbackFirst(st, res, data) ==
  [nFetch |-> st.nFetch + (IF res.fetched THEN 1 ELSE 0),
   nMerged |-> st.nMerged + (IF res.err THEN 0 ELSE 1),
   lastMerged |-> IF res.err THEN st.lastMerged ELSE data,
   nCalled |-> st.nCalled + 1,
   lastCalled |-> data,
   fetchFailed |-> st.fetchFailed \/ res.fetchErr]

\* what the run has done after self.update_order_book(...); callback(data):
\* an exception in update_order_book skips the callback
Account(st, res, data) ==
  IF res.err
  THEN [st EXCEPT !.nFetch = @ + (IF res.fetched THEN 1 ELSE 0),
                  !.fetchFailed = @ \/ res.fetchErr]
  ELSE [nFetch |-> st.nFetch + (IF res.fetched THEN 1 ELSE 0),
        nMerged |-> st.nMerged + 1,
        lastMerged |-> data,
        nCalled |-> st.nCalled + 1,
        lastCalled |-> data,
        fetchFailed |-> st.fetchFailed \/ res.fetchErr]

\* `data = await recv_task` returns a frame: everything up to the next await.
\* resp is what the depth endpoint answers if update_order_book asks it.
run_frame(r, resp) ==
  LET id     == runs[r].id
      raw    == runs[r].data
      perp   == IsPerpId(id)
      data   == IF perp THEN Unwrap(raw) ELSE raw
      symbol == data.s
      books  == IF HasUnderscore(symbol) THEN order_books_perp ELSE order_books
      known  == symbol \in DOMAIN books
      res    == update_order_book(books[symbol], data, resp)
      raises == ~res.err /\ CallbackRaises(runs[r].callback, res.book)
      failed == /\ UNCHANGED <<order_books, order_books_perp, stats, ref>>
                /\ runs' = Ends(r, "error")
  IN
  /\ runs[r].pc = "recv" /\ runs[r].recv = "done"
  /\ closing' = NotClosing
  /\ UNCHANGED <<sockets, closed, events, mergeVars>>
  /\ IF raw.env = "garbage"
     THEN \* json.loads raises, self._tasks[id] is still there
          failed /\ tasks' = tasks
     ELSE IF id \notin DOMAIN tasks
     THEN \* del self._tasks[id] raises KeyError
          failed /\ tasks' = tasks
     ELSE
       /\ tasks' = DictDel(tasks, id)
       /\ IF (perp /\ raw.env # "data") \/ (~perp /\ raw.env # "none") \/ ~known
          THEN \* data['data'], data['s'] or the book lookup raises KeyError
               failed
          ELSE
            /\ IF HasUnderscore(symbol)
               THEN /\ order_books_perp' = DictPut(order_books_perp, symbol, res.book)
                    /\ order_books' = order_books
               ELSE /\ order_books' = DictPut(order_books, symbol, res.book)
                    /\ order_books_perp' = order_books_perp
            /\ ref' = [ref EXCEPT ![symbol] = RefStep(@, data, resp)]
            /\ stats' = [stats EXCEPT ![r] = Account(@, res, data)]
            /\ runs' = IF res.err \/ raises
                       THEN \* the snapshot request, Decimal() or the
                            \* callback raised
                            Ends(r, "error")
                       ELSE \* await asyncio.sleep(.1)
                            [runs EXCEPT ![r].pc = "sleep", ![r].recv = "none",
                                         ![r].data = NoFrame]

\* run_raise with the CancelledError handled like any exception of recv()
run_raise_as_error(r) ==
  /\ runs[r].pc = "recv" /\ runs[r].recv \in {"failed", "cancelled"}
  /\ runs' = Ends(r, "error")
  /\ closing' = NotClosing
  /\ UNCHANGED <<order_books, order_books_perp, sockets, tasks,
                 closed, events, stats, ref, mergeVars>>

\* `await recv_task` raises: ConnectionClosed of a dropped connection, or
\* CancelledError of the receive that close() cancelled
run_raise(r) ==
  /\ runs[r].pc = "recv" /\ runs[r].recv \in {"failed", "cancelled"}
  /\ runs' = Ends(r, IF runs[r].recv = "cancelled" THEN "cancelled" ELSE "error")
  /\ closing' = NotClosing
  /\ UNCHANGED <<order_books, order_books_perp, sockets, tasks,
                 closed, events, stats, ref, mergeVars>>

\* asyncio.sleep(.1) is over: back to the loop head
run_wake(r) ==
  /\ runs[r].pc = "sleep"
  /\ LoopHead(r, sockets, runs)
  /\ closing' = NotClosing
  /\ UNCHANGED <<order_books, order_books_perp, sockets, closed,
                 events, stats, ref, mergeVars>>

\* ------------------------------------------------------------- close()
\* the runs whose receive is stored in self._tasks and still in flight
PendingInTable ==
  {r \in DOMAIN runs :
     /\ runs[r].pc = "recv" /\ runs[r].recv = "pending"
     /\ \E key \in DOMAIN tasks : tasks[key] = r}

\* close() that clears the open set and cancels nothing
close_without_cancel ==
  /\ ~closed
  /\ runs' = runs
  /\ sockets' = {}
  /\ closed' = TRUE
  /\ closing' = [last |-> TRUE, pending |-> PendingInTable]
  /\ UNCHANGED <<order_books, order_books_perp, tasks, events,
                 stats, ref, mergeVars>>

\* for key in self._tasks: self._tasks[key].cancel(); self._sockets.clear()
\* (cancel() of a task that is already done does nothing).  main.py calls it
\* once, on KeyboardInterrupt; the runs may go on being scheduled afterwards.
close ==
  /\ ~closed
  /\ runs' = [r \in DOMAIN runs |->
                IF r \in PendingInTable
                THEN [runs[r] EXCEPT !.recv = "cancelled"] ELSE runs[r]]
  /\ sockets' = {}
  /\ closed' = TRUE
  /\ closing' = [last |-> TRUE, pending |-> PendingInTable]
  /\ UNCHANGED <<order_books, order_books_perp, tasks, events,
                 stats, ref, mergeVars>>

\* main.py run(): `for pair in pairs`, with any consumer
StartSpot == \E pair \in Pairs, cb \in Callbacks : start_spot(pair, cb)
StartPerp == \E pair \in Pairs, cb \in Callbacks : start_perp(pair, cb)

\* the steps of the event loop, for any run that can take them
RunStart == \E r \in DOMAIN runs : run_start(r)
ConnectOk == \E r \in DOMAIN runs : connect_ok(r)
ConnectFail == \E r \in DOMAIN runs : connect_fail(r)
RecvFrame ==
  \E r \in DOMAIN runs :
    \E f \in WireFrames(runs[r].symbol, IsPerpId(runs[r].id)) : recv_frame(r, f)
RecvClosed == \E r \in DOMAIN runs : recv_closed(r)
RunFrame == \E r \in DOMAIN runs, resp \in Responses : run_frame(r, resp)
RunRaise == \E r \in DOMAIN runs : run_raise(r)
RunWake == \E r \in DOMAIN runs : run_wake(r)

Next ==
  \/ StartSpot
  \/ StartPerp
  \/ RunStart
  \/ ConnectOk
  \/ ConnectFail
  \/ RecvFrame
  \/ RecvClosed
  \/ RunFrame
  \/ RunRaise
  \/ RunWake
  \/ close

Spec == Init /\ [][Next]_vars

\* ------------------------------------------- the merge of one price level
\* the prices and quantities of the books under test
PriceVals == {1, 2}
QtyVals == {1, 2}

\* every dict of levels, every book
Dicts == UNION {[S -> QtyVals] : S \in SUBSET PriceVals}
Books == [bids : Dicts, asks : Dicts]

\* the [price, quantity] entries tried on them
LevelEntries ==
  ({"1", "1.0", "2"} \X {"0", "1", "2"}) \cup {<<"x", "1">>, <<"1", "x">>}

InitMerge == InitStream /\ mbook \in Books /\ mlog = << >>

\* one [price, quantity] entry of an 'a' or 'b' list merged into its side
merge_level(side, entry) ==
  LET r == MergeLevel(mbook[side], entry)
      e == [side |-> side, entry |-> entry, before |-> mbook, err |-> r.err]
  IN  /\ mbook' = [mbook EXCEPT ![side] = r.dict]
      /\ mlog' = IF mlog = << >> THEN <<e>> ELSE <<mlog[Len(mlog)], e>>
      /\ UNCHANGED <<progVars, histVars>>

MergeLevelStep ==
  \E side \in {"asks", "bids"}, entry \in LevelEntries : merge_level(side, entry)

NextMerge == MergeLevelStep

SpecMerge == InitMerge /\ [][NextMerge]_vars

\* ------------------------------------------- the book of one session
\* what the depth endpoint may answer: also a snapshot with a level of
\* quantity 0
BookResponses ==
  Responses \cup
  {[status |-> "ok", bids |-> << <<"1", "0">> >>, asks |-> << <<"2", "1">> >>]}

\* the frames of the session: also a bid at the price of the best ask
BookUpdates ==
  Updates \cup {[a |-> << >>, b |-> << <<"2", "1">> >>]}

\* some level of the answer has a quantity that is not positive
HasZeroLevel(resp) ==
  \/ \E i \in DOMAIN resp.bids : Decimal(resp.bids[i][2]) <= 0
  \/ \E i \in DOMAIN resp.asks : Decimal(resp.asks[i][2]) <= 0

\* open_stream_order_book: the book of the session starts empty
InitBook == InitStream /\ mbook = EmptyBook /\ mlog = << >>

\* one call of update_order_book of the session, as run() makes them one
\* after the other until one raises; mlog keeps the call and whether a
\* snapshot with a non-positive quantity has been loaded so far
book_update(updates, resp) ==
  LET res == update_order_book(mbook, updates, resp)
      was == mlog # << >> /\ mlog[1].zeroSnap
  IN  /\ IF mlog = << >> THEN TRUE ELSE ~mlog[1].err
      /\ mbook' = res.book
      /\ mlog' = << [updates |-> updates, resp |-> resp, before |-> mbook,
                     fetched |-> res.fetched, err |-> res.err,
                     zeroSnap |-> was \/ (res.fetched /\ resp.status = "ok"
                                            /\ HasZeroLevel(resp))] >>
      /\ UNCHANGED <<progVars, histVars>>

BookUpdate ==
  \E updates \in BookUpdates, resp \in BookResponses : book_update(updates, resp)

NextBook == BookUpdate

SpecBook == InitBook /\ [][NextBook]_vars

\* ------------------------------------------------------------ properties
\* the runs that are inside `async with websockets.connect(url)`: connected,
\* in the loop
Live(r) == runs[r].pc \in {"recv", "sleep"}

LiveRuns(id) == {r \in DOMAIN runs : runs[r].id = id /\ Live(r)}

\* the receives of the streams of an id that are in flight
PendingReceives(id) ==
  {r \in DOMAIN runs :
     runs[r].id = id /\ runs[r].pc = "recv" /\ runs[r].recv = "pending"}

Ids == {runs[r].id : r \in DOMAIN runs}

\* the book a run merges into
BookOf(r) ==
  IF HasUnderscore(runs[r].symbol) THEN order_books_perp[runs[r].symbol]
  ELSE order_books[runs[r].symbol]

\* the only stream ever opened for its symbol
SoleRun(r) == \A o \in DOMAIN runs : runs[o].symbol = runs[r].symbol => o = r

\* C1: for every id at most one run is in its loop, holding a connection, at
\* any time, also when two streams of the id are opened before either has
\* connected.
C1_OneSessionPerId == \A id \in Ids : Cardinality(LiveRuns(id)) <= 1

\* C2: opening a stream whose id is already in the open set leaves the books,
\* the open set and the table of receives as they were.
C2_DuplicateStartNoOp ==
  [][\A pair \in Pairs, cb \in Callbacks :
       /\ (start_spot(pair, cb) /\ SpotId(pair) \in sockets
             => UNCHANGED <<order_books, order_books_perp, sockets, tasks>>)
       /\ (start_perp(pair, cb) /\ PerpId(pair) \in sockets
             => UNCHANGED <<order_books, order_books_perp, sockets, tasks>>)]_vars

\* C3: a stream that has merged a frame has requested the snapshot exactly
\* once, whatever frames followed the first.
C3_BootstrapOnce ==
  \A r \in DOMAIN runs :
    SoleRun(r) /\ stats[r].nMerged >= 1 => stats[r].nFetch = 1

\* C4: when a stream has merged every frame it received, its book is the
\* reference book: the snapshot, then the frames merged one after the other.
C4_SequentialMerge ==
  \A r \in DOMAIN runs :
    (/\ SoleRun(r)
     /\ stats[r].nMerged >= 1
     /\ runs[r].pc = "sleep" \/ (runs[r].pc = "recv" /\ runs[r].recv = "pending"))
    => BookOf(r) = ref[runs[r].symbol].book

\* C5: right after close() the open set is empty and every receive that was
\* in flight in the table of receives is cancelled.
C5_CloseCancelsAll ==
  closing.last =>
    /\ sockets = {}
    /\ \A r \in closing.pending : runs[r].recv = "cancelled"

C5_Witness ==
  /\ closing.last
  /\ Cardinality(closing.pending) >= 2
  /\ tasks # EmptyDict

\* C6: after close() the open set stays empty (and so every loop ends),
\* whatever the streams were doing when it was called.
C6_ClosedStaysClosed == closed => sockets = {}

\* C7: an id of the open set has at most one receive in flight, and the entry
\* of the id in the table of receives, if there is one, is that receive.
C7_SingleOutstandingReceive ==
  \A id \in sockets :
    /\ Cardinality(PendingReceives(id)) <= 1
    /\ id \in DOMAIN tasks => \A r \in PendingReceives(id) : tasks[id] = r

\* C8: a run has called the consumer once for each frame it has merged, the
\* last call being for the last merged frame; this holds whenever the run
\* waits for its next frame.
C8_OneCallbackPerMerge ==
  \A r \in DOMAIN runs :
    /\ stats[r].nCalled = stats[r].nMerged
    /\ stats[r].lastCalled = stats[r].lastMerged

C8_Witness ==
  \E r \in DOMAIN runs :
    /\ stats[r].nMerged >= 2
    /\ stats[r].nCalled >= 2
    /\ runs[r].pc = "recv" /\ runs[r].recv = "pending"

\* the last merged entry, its price and quantity
LastEntry == mlog[Len(mlog)]
EntryOk(e) == DecimalOk(e.entry[1]) /\ DecimalOk(e.entry[2])
EntryPrice(e) == Decimal(e.entry[1])
EntryQty(e) == Decimal(e.entry[2])

\* the case of C9: quantity 0 for a price the side does not hold
RemovesAbsent(e) ==
  /\ EntryOk(e)
  /\ EntryQty(e) = 0
  /\ EntryPrice(e) \notin DOMAIN e.before[e.side]

\* C9: merging a level of quantity 0 whose price is absent from its side
\* leaves the whole book unchanged and raises nothing.
C9_RemoveAbsentNoOp ==
  mlog # << >> /\ RemovesAbsent(LastEntry) => mbook = LastEntry.before /\ ~LastEntry.err

C9_Witness ==
  /\ mlog # << >> /\ RemovesAbsent(LastEntry)
  /\ DOMAIN LastEntry.before[LastEntry.side] # {}

\* the case of C10: two entries in a row for the same side and price, the
\* second with a positive quantity
ReplacesTwice ==
  /\ Len(mlog) = 2
  /\ EntryOk(mlog[1]) /\ EntryOk(mlog[2])
  /\ mlog[1].side = mlog[2].side
  /\ EntryPrice(mlog[1]) = EntryPrice(mlog[2])
  /\ EntryQty(mlog[2]) > 0

OtherSide(side) == IF side = "asks" THEN "bids" ELSE "asks"

\* C10: after two levels for the same side and price, quantities q1 then
\* q2 > 0, the side holds that price with quantity q2 and every other level
\* of the book is as before the two.
C10_ReplaceSemantics ==
  ReplacesTwice =>
    LET side == mlog[2].side
        p    == EntryPrice(mlog[2])
        old  == mlog[1].before
    IN  /\ p \in DOMAIN mbook[side]
        /\ mbook[side][p] = EntryQty(mlog[2])
        /\ DOMAIN mbook[side] \ {p} = DOMAIN old[side] \ {p}
        /\ \A x \in DOMAIN mbook[side] \ {p} : mbook[side][x] = old[side][x]
        /\ mbook[OtherSide(side)] = old[OtherSide(side)]

C10_Witness ==
  /\ ReplacesTwice
  /\ EntryQty(mlog[1]) > 0
  /\ EntryQty(mlog[1]) # EntryQty(mlog[2])
  /\ mlog[1].entry[1] # mlog[2].entry[1]
  /\ DOMAIN mlog[1].before[mlog[1].side] \ {EntryPrice(mlog[1])} # {}

\* the quantities held by a book
Quantities(book) ==
  {book.bids[p] : p \in DOMAIN book.bids} \cup {book.asks[p] : p \in DOMAIN book.asks}

\* C11: no price level with a quantity <= 0 is a key of either side of the
\* book, after any snapshot and any frames.
C11_NoZeroLevel == \A q \in Quantities(mbook) : q > 0

\* C11, amended: as long as no loaded snapshot held a level with a quantity
\* <= 0, no such level is a key of either side of the book: the frames never
\* write one, the snapshot is written as it comes.
C11_NoZeroLevelFromFrames ==
  (mlog # << >> /\ ~mlog[1].zeroSnap) => \A q \in Quantities(mbook) : q > 0

\* a frame with quantities 0 has been merged into a book that held levels,
\* and levels remain
C11_Witness ==
  /\ mlog # << >> /\ ~mlog[1].zeroSnap /\ ~mlog[1].err
  /\ ~BookEmpty(mlog[1].before)
  /\ \E i \in DOMAIN mlog[1].updates.a : mlog[1].updates.a[i][2] = "0"
  /\ Quantities(mbook) # {}

\* the best prices of a book with both sides non-empty
BestBid(book) == CHOOSE p \in DOMAIN book.bids : \A x \in DOMAIN book.bids : x <= p
BestAsk(book) == CHOOSE p \in DOMAIN book.asks : \A x \in DOMAIN book.asks : p <= x

\* C12: whenever both sides of the book are non-empty, the best (highest)
\* bid is strictly below the best (lowest) ask.
C12_NotCrossed ==
  (DOMAIN mbook.bids # {} /\ DOMAIN mbook.asks # {}) => BestBid(mbook) < BestAsk(mbook)

\* the entry of an id in a table of receives, 0 for none
EntryOf(table, id) == IF id \in DOMAIN table THEN table[id] ELSE 0

\* the book of a symbol in the two maps of books
BookIn(spot, perp, symbol) == IF HasUnderscore(symbol) THEN perp[symbol] ELSE spot[symbol]

\* C13: in a step in which the loop of one stream ends with an error, the
\* streams of every other symbol keep their book, their membership of the
\* open set, their entry in the table of receives, their pending receive and
\* their place in the loop, from which they go on receiving and merging.
C13_FailureIsolation ==
  [][\A r \in DOMAIN runs :
       (runs[r].pc # "error" /\ runs'[r].pc = "error") =>
         \A o \in DOMAIN runs :
           runs[o].symbol # runs[r].symbol =>
             /\ runs'[o] = runs[o]
             /\ stats'[o] = stats[o]
             /\ BookIn(order_books', order_books_perp', runs[o].symbol)
                  = BookIn(order_books, order_books_perp, runs[o].symbol)
             /\ (runs[o].id \in sockets') = (runs[o].id \in sockets)
             /\ EntryOf(tasks', runs[o].id) = EntryOf(tasks, runs[o].id)]_vars

\* one stream has ended with an error and the stream of another symbol has
\* merged a frame and waits for the next
C13_Witness ==
  \E r \in DOMAIN runs, o \in DOMAIN runs :
    /\ runs[r].symbol # runs[o].symbol
    /\ runs[r].pc = "error"
    /\ stats[o].nMerged >= 1
    /\ runs[o].pc = "recv" /\ runs[o].recv = "pending"
    /\ EntryOf(tasks, runs[o].id) = o

\* a frame that cannot be read as a depth update: not JSON at all, or a
\* price or a quantity that Decimal() rejects
Malformed(f) ==
  \/ f.env = "garbage"
  \/ \E i \in DOMAIN f.a : ~(DecimalOk(f.a[i][1]) /\ DecimalOk(f.a[i][2]))
  \/ \E i \in DOMAIN f.b : ~(DecimalOk(f.b[i][1]) /\ DecimalOk(f.b[i][2]))

\* the run takes the frame it has received in this step
TakesFrame(r) == runs[r].pc = "recv" /\ runs[r].recv = "done" /\ runs'[r] # runs[r]

\* C14: when the frame a run has received is malformed, the run ends with
\* an error, the books are as before the frame and the consumer has not been
\* called for it.
C14_MalformedFrameNotApplied ==
  [][\A r \in DOMAIN runs :
       (TakesFrame(r) /\ Malformed(runs[r].data)) =>
         /\ runs'[r].pc = "error"
         /\ UNCHANGED <<order_books, order_books_perp>>
         /\ stats'[r].nCalled = stats[r].nCalled]_vars

\* C15: in the step in which the snapshot request of a run raises, the run
\* ends with an error, the books are as before and the book of the run is
\* empty, the frame is not merged and the consumer is not called; from then
\* on the run does nothing more: no second request, no merge, no callback.
C15_FetchFailureAborts ==
  [][\A r \in DOMAIN runs :
       /\ (~stats[r].fetchFailed /\ stats'[r].fetchFailed) =>
            /\ runs'[r].pc = "error"
            /\ UNCHANGED <<order_books, order_books_perp>>
            /\ BookEmpty(BookIn(order_books', order_books_perp', runs[r].symbol))
            /\ stats'[r].nFetch = stats[r].nFetch + 1
            /\ stats'[r].nMerged = stats[r].nMerged
            /\ stats'[r].nCalled = stats[r].nCalled
       /\ stats[r].fetchFailed =>
            runs'[r] = runs[r] /\ stats'[r] = stats[r]]_vars

\* the first snapshot request of a run has raised: the run has ended, its
\* book is empty, it has merged nothing and called nobody
C15_Witness ==
  \E r \in DOMAIN runs :
    /\ stats[r].fetchFailed
    /\ runs[r].pc = "error"
    /\ BookEmpty(BookOf(r))
    /\ stats[r].nFetch = 1 /\ stats[r].nMerged = 0 /\ stats[r].nCalled = 0

\* C16: a run whose receive was cancelled by close() takes one more step: it
\* ends as cancelled, not with an error; the step changes no book, requests
\* no snapshot, merges nothing and calls no consumer.
C16_CancelledReceiveIsNoFrame ==
  [][\A r \in DOMAIN runs :
       (runs[r].recv = "cancelled" /\ runs'[r] # runs[r]) =>
         /\ runs'[r].pc = "cancelled"
         /\ UNCHANGED <<order_books, order_books_perp, stats>>]_vars

\* a run that had merged a frame has ended on the cancellation of its
\* receive
C16_Witness ==
  \E r \in DOMAIN runs :
    /\ closed
    /\ runs[r].pc = "cancelled" /\ runs[r].recv = "cancelled"
    /\ stats[r].nMerged >= 1
    /\ ~BookEmpty(BookOf(r))

\* C17: every id of the open set is the id of a run that is in its loop;
\* the id of a loop that has ended, for whatever reason, is not in the open
\* set, so that the id can be opened again.
C17_OpenSetIsLive == \A id \in sockets : LiveRuns(id) # {}

\* C18: when a run hands a merged frame to call_order_book and a side of the
\* book is empty, the call computes no spread and raises nothing: the run
\* goes on to its sleep and to the next frame.
C18_SpreadAbsentOnEmptySide ==
  [][\A r \in DOMAIN runs :
       (/\ TakesFrame(r)
        /\ runs[r].callback = "call_order_book"
        /\ stats'[r].nCalled = stats[r].nCalled + 1
        /\ call_order_book_raises(BookIn(order_books', order_books_perp',
                                         runs[r].symbol)))
       => runs'[r].pc = "sleep"]_vars

\* C19: every entry of the table of receives belongs to an id of the open
\* set and to a run of that id that is still at its await of the receive;
\* there is no entry for the receive of a run that has ended, and none after
\* close().
C19_TableHoldsPendingOnly ==
  \A id \in DOMAIN tasks :
    /\ id \in sockets
    /\ runs[tasks[id]].id = id
    /\ runs[tasks[id]].pc = "recv"

\* C20: once close() has been called no step changes a book, requests a
\* snapshot, merges a frame or calls a consumer, also when a frame had been
\* received before close() and not yet taken by its run.
C20_NothingAppliedAfterClose ==
  [][closed => UNCHANGED <<order_books, order_books_perp, stats>>]_vars

====
